---- MODULE Spec2Model ----
(***************************************************************************)
(* State-machine model of sharegpt_translation/translate.py:              *)
(* process_file and translate_conversation, with the Python objects held  *)
(* in a heap so that copies and aliases are distinguishable.              *)
(*                                                                         *)
(* A text is a sequence of one-character strings.  A record (dict) is a    *)
(* function from field names to values; a reference is an index into the   *)
(* heap.  Lists of messages are kept as sequences of references.           *)
(***************************************************************************)
EXTENDS Integers, Sequences, FiniteSets, TLC

\* ---------------------------------------------------------------- bounds
MaxLen == 3
MaxItems == 2
MaxMsgs == 3

\* ---------------------------------------------------------------- texts
NL == "\n"
SP == " "
Chars == {"a", "b", SP, NL}
Whitespace == {SP, NL}

Texts == UNION {[1..n -> Chars] : n \in 0..MaxLen}

\* str.split('\n'): the pieces between the separators, empty pieces kept.
RECURSIVE Split(_)
Split(s) ==
  IF \A i \in 1..Len(s) : s[i] # NL
  THEN <<s>>
  ELSE LET i == CHOOSE k \in 1..Len(s) :
                  s[k] = NL /\ \A m \in 1..(k - 1) : s[m] # NL
       IN <<SubSeq(s, 1, i - 1)>> \o Split(SubSeq(s, i + 1, Len(s)))

\* str.strip(): leading and trailing whitespace removed.
Strip(s) ==
  LET keep == {i \in 1..Len(s) : s[i] \notin Whitespace}
  IN IF keep = {} THEN <<>>
     ELSE LET lo == CHOOSE i \in keep : \A k \in keep : i <= k
              hi == CHOOSE i \in keep : \A k \in keep : k <= i
          IN SubSeq(s, lo, hi)

IsNonEmpty(s) == s # <<>>

\* [line.strip() for line in value.split('\n') if line.strip()]
Sentences(text) ==
  LET lines == Split(text)
  IN SelectSeq([i \in 1..Len(lines) |-> Strip(lines[i])], IsNonEmpty)

\* Mutant of Join: the translations are joined in reverse order.
RECURSIVE JoinReversed(_)
JoinReversed(lines) ==
  IF Len(lines) = 0 THEN <<>>
  ELSE IF Len(lines) = 1 THEN lines[1]
  ELSE JoinReversed(Tail(lines)) \o <<NL>> \o lines[1]

\* '\n'.join(translations)
RECURSIVE Join(_)
Join(lines) ==
  IF Len(lines) = 0 THEN <<>>
  ELSE IF Len(lines) = 1 THEN lines[1]
  ELSE lines[1] \o <<NL>> \o Join(Tail(lines))

\* The backend: one single-line string per input, same length and order.
TranslateChar(c) == IF c = "a" THEN "x" ELSE IF c = "b" THEN "y" ELSE c
TranslateLine(line) == [i \in 1..Len(line) |-> TranslateChar(line[i])]
batch_translate(sentences) ==
  [i \in 1..Len(sentences) |-> TranslateLine(sentences[i])]

\* ---------------------------------------------------------------- records
HasField(r, k) == k \in DOMAIN r
SetField(r, k, v) == [f \in (DOMAIN r) \cup {k} |-> IF f = k THEN v ELSE r[f]]

\* msg.get('value') is truthy: the field is present and not the empty string.
ValueTruthy(msg) == HasField(msg, "value") /\ msg.value # <<>>

SampleMsgs ==
  { [from |-> "human", value |-> <<"a", NL, "b">>],
    [from |-> "gpt", value |-> <<>>],
    [from |-> "gpt", value |-> <<SP, NL, SP>>],
    [from |-> "system"] }

TextMsgs == {[from |-> "human", value |-> t] : t \in Texts}

\* ---------------------------------------------------------------- state
VARIABLES
  data,                    \* the value json.load returned: its kind and item references
  heap,                    \* the dict objects, by reference
  input,                   \* the heap as it was when the file had been loaded
  output_file_path,        \* "" when no output path was given
  pc,                      \* where process_file is
  pbar,                    \* the tqdm progress bar: created, total, n
  all_translated,          \* process_file: the output list being built
  ci,                      \* process_file: index of conv_item in data
  conversation,            \* translate_conversation: the message list argument
  mi,                      \* translate_conversation: index of msg in conversation
  translated_conversation, \* translate_conversation: the list being built
  translated_msg,          \* translate_conversation: the copy made for the current msg
  sentences,               \* the argument of the outstanding batch_translate call
  calls,                   \* every batch_translate call made so far, in order
  result,                  \* what process_file returned
  file                     \* the output file: written or not, and its content

vars == <<data, heap, input, output_file_path, pc, pbar, all_translated, ci,
          conversation, mi, translated_conversation, translated_msg, sentences,
          calls, result, file>>

OutputPaths == {"", "out.json"}

RECURSIVE SumSeq(_)
SumSeq(s) == IF Len(s) = 0 THEN 0 ELSE Head(s) + SumSeq(Tail(s))

\* The shape of a list item: -1 when it has no 'conversations' field, else the
\* number of its messages.
Count(shape) == IF shape < 0 THEN 0 ELSE shape
Offset(shapes, i) == SumSeq([k \in 1..(i - 1) |-> Count(shapes[k])])
Total(shapes) == Offset(shapes, Len(shapes) + 1)

\* The heap json.load builds: the items first, then their messages in order.
ItemRecord(shapes, i) ==
  IF shapes[i] < 0
  THEN [id |-> i]
  ELSE [id |-> i,
        conversations |-> [j \in 1..shapes[i] |-> Len(shapes) + Offset(shapes, i) + j]]
LoadedHeap(shapes, msgs) == [i \in 1..Len(shapes) |-> ItemRecord(shapes, i)] \o msgs

ItemRefs(n) == [i \in 1..n |-> i]

InitLocals ==
  /\ pc = "Start"
  /\ pbar = [created |-> FALSE, total |-> 0, n |-> 0]
  /\ all_translated = <<>>
  /\ ci = 0
  /\ conversation = <<>>
  /\ mi = 0
  /\ translated_conversation = <<>>
  /\ translated_msg = 0
  /\ sentences = <<>>
  /\ calls = <<>>
  /\ result = [kind |-> "none", items |-> <<>>]
  /\ file = [written |-> FALSE, content |-> <<>>]

\* A list of conversation items, some of them lacking 'conversations'.
InitList ==
  \E n \in 0..MaxItems :
    \E shapes \in [1..n -> -1..MaxMsgs] :
      /\ Total(shapes) <= MaxMsgs
      /\ \E msgs \in [1..Total(shapes) -> SampleMsgs] :
           /\ data = [kind |-> "list", items |-> ItemRefs(n)]
           /\ heap = LoadedHeap(shapes, msgs)

\* A single mapping, with 'conversations' (a conversation) or without it.
InitDict ==
  \E k \in -1..MaxMsgs :
    \E msgs \in [1..Count(k) -> SampleMsgs] :
      /\ data = [kind |-> "dict", items |-> ItemRefs(1)]
      /\ heap = LoadedHeap(<<k>>, msgs)

\* One conversation of one message, whose value is any text up to MaxLen.
InitText ==
  \E kind \in {"list", "dict"} :
    \E m \in TextMsgs :
      /\ data = [kind |-> kind, items |-> ItemRefs(1)]
      /\ heap = LoadedHeap(<<1>>, <<m>>)

\* Any other JSON value (a number, a string, null).
InitOther ==
  /\ data = [kind |-> "other", items |-> <<>>]
  /\ heap = <<>>

Init ==
  /\ InitList \/ InitDict \/ InitText \/ InitOther
  /\ input = heap
  /\ output_file_path \in OutputPaths
  /\ InitLocals

\* ---------------------------------------------------------------- helpers
\* len(item.get('conversations', []))
ConvLen(item) == IF HasField(item, "conversations") THEN Len(item.conversations) ELSE 0

\* Mutant of TotalMessages: the total is the number of items, len(data).
TotalItems(items) == Len(items)

\* sum(len(item.get('conversations', [])) for item in data)
TotalMessages(items) == SumSeq([i \in 1..Len(items) |-> ConvLen(heap[items[i]])])

\* progress_bar.update(1)
Tick(p) == [p EXCEPT !.n = @ + 1]

\* Mutant of NeedsCall: the test `len(sentences) > 0` is lost.
NeedsCallNoLenCheck(msg) == ValueTruthy(msg)

\* The backend is called for msg: value is truthy and has a non-blank line.
NeedsCall(msg) == ValueTruthy(msg) /\ Len(Sentences(msg.value)) > 0

\* What json.dump writes for the item at reference r of heap h.
DumpItem(h, r) ==
  IF HasField(h[r], "conversations")
  THEN SetField(h[r], "conversations",
                [j \in 1..Len(h[r].conversations) |-> h[h[r].conversations[j]]])
  ELSE h[r]
Dump(h, refs) == [i \in 1..Len(refs) |-> DumpItem(h, refs[i])]

\* if output_file_path: open(output_file_path, 'w'); json.dump(...)
Saved(h, refs) ==
  IF output_file_path # ""
  THEN [written |-> TRUE, content |-> Dump(h, refs)]
  ELSE file

CurrentItem == data.items[ci]
CurrentMsg == heap[conversation[mi]]

\* ---------------------------------------------------------------- process_file
\* isinstance(data, list): the total is computed, the bar created, the loop entered.
ProcessList ==
  /\ pc = "Start"
  /\ data.kind = "list"
  /\ pbar' = [created |-> TRUE, total |-> TotalMessages(data.items), n |-> 0]
  /\ all_translated' = <<>>
  /\ ci' = 1
  /\ pc' = "Items"
  /\ UNCHANGED <<data, heap, input, output_file_path, conversation, mi,
                 translated_conversation, translated_msg, sentences, calls,
                 result, file>>

\* isinstance(data, dict) and 'conversations' in data: the bar is created and
\* translate_conversation entered.
ProcessSingle ==
  /\ pc = "Start"
  /\ data.kind = "dict"
  /\ HasField(heap[data.items[1]], "conversations")
  /\ pbar' = [created |-> TRUE, total |-> Len(heap[data.items[1]].conversations), n |-> 0]
  /\ ci' = 1
  /\ conversation' = heap[data.items[1]].conversations
  /\ mi' = 1
  /\ translated_conversation' = <<>>
  /\ pc' = "Msgs"
  /\ UNCHANGED <<data, heap, input, output_file_path, all_translated,
                 translated_msg, sentences, calls, result, file>>

\* Mutant of ProcessUnsupported: the save is reached on the unsupported path too.
ProcessUnsupportedSaving ==
  /\ pc = "Start"
  /\ data.kind # "list"
  /\ ~(data.kind = "dict" /\ HasField(heap[data.items[1]], "conversations"))
  /\ result' = [kind |-> "none", items |-> <<>>]
  /\ file' = Saved(heap, <<>>)
  /\ pc' = "Unsupported"
  /\ UNCHANGED <<data, heap, input, output_file_path, pbar, all_translated, ci,
                 conversation, mi, translated_conversation, translated_msg,
                 sentences, calls>>

\* else: print("Error: Unsupported data format"); return None
ProcessUnsupported ==
  /\ pc = "Start"
  /\ data.kind # "list"
  /\ ~(data.kind = "dict" /\ HasField(heap[data.items[1]], "conversations"))
  /\ result' = [kind |-> "none", items |-> <<>>]
  /\ pc' = "Unsupported"
  /\ UNCHANGED <<data, heap, input, output_file_path, pbar, all_translated, ci,
                 conversation, mi, translated_conversation, translated_msg,
                 sentences, calls, file>>

\* for conv_item in data: if 'conversations' in conv_item: translate_conversation(...)
EnterConversation ==
  /\ pc = "Items"
  /\ ci <= Len(data.items)
  /\ HasField(heap[CurrentItem], "conversations")
  /\ conversation' = heap[CurrentItem].conversations
  /\ mi' = 1
  /\ translated_conversation' = <<>>
  /\ pc' = "Msgs"
  /\ UNCHANGED <<data, heap, input, output_file_path, pbar, all_translated, ci,
                 translated_msg, sentences, calls, result, file>>

\* Mutant of SkipItem: the item without 'conversations' is not appended.
SkipItemDropped ==
  /\ pc = "Items"
  /\ ci <= Len(data.items)
  /\ ~HasField(heap[CurrentItem], "conversations")
  /\ ci' = ci + 1
  /\ UNCHANGED <<data, heap, input, output_file_path, pc, pbar, all_translated,
                 conversation, mi, translated_conversation, translated_msg,
                 sentences, calls, result, file>>

\* else: print warning; all_translated.append(conv_item)
SkipItem ==
  /\ pc = "Items"
  /\ ci <= Len(data.items)
  /\ ~HasField(heap[CurrentItem], "conversations")
  /\ all_translated' = Append(all_translated, CurrentItem)
  /\ ci' = ci + 1
  /\ UNCHANGED <<data, heap, input, output_file_path, pc, pbar, conversation, mi,
                 translated_conversation, translated_msg, sentences, calls,
                 result, file>>

\* ------------------------------------------------------ translate_conversation
\* One pass of `for msg in conversation` that makes no backend call: msg.copy(),
\* translated_value = "" when value is truthy but has no non-blank line,
\* append, progress_bar.update(1).
MsgNoCall ==
  /\ pc = "Msgs"
  /\ mi <= Len(conversation)
  /\ ~NeedsCall(CurrentMsg)
  /\ heap' = Append(heap, IF ValueTruthy(CurrentMsg)
                          THEN SetField(CurrentMsg, "translated_value", <<>>)
                          ELSE CurrentMsg)
  /\ translated_msg' = Len(heap) + 1
  /\ translated_conversation' = Append(translated_conversation, Len(heap) + 1)
  /\ pbar' = Tick(pbar)
  /\ mi' = mi + 1
  /\ UNCHANGED <<data, input, output_file_path, pc, all_translated, ci,
                 conversation, sentences, calls, result, file>>

\* Mutant of MsgCall: the bar is updated before batch_translate is called.
MsgCallTickFirst ==
  /\ pc = "Msgs"
  /\ mi <= Len(conversation)
  /\ NeedsCall(CurrentMsg)
  /\ heap' = Append(heap, CurrentMsg)
  /\ translated_msg' = Len(heap) + 1
  /\ sentences' = Sentences(CurrentMsg.value)
  /\ calls' = Append(calls, [item |-> ci, msg |-> mi,
                             sentences |-> Sentences(CurrentMsg.value)])
  /\ pbar' = Tick(pbar)
  /\ pc' = "Calling"
  /\ UNCHANGED <<data, input, output_file_path, all_translated, ci,
                 conversation, mi, translated_conversation, result, file>>

\* msg.copy(), the sentences built, and model.batch_translate called: the call
\* is outstanding until the backend returns or raises.
MsgCall ==
  /\ pc = "Msgs"
  /\ mi <= Len(conversation)
  /\ NeedsCall(CurrentMsg)
  /\ heap' = Append(heap, CurrentMsg)
  /\ translated_msg' = Len(heap) + 1
  /\ sentences' = Sentences(CurrentMsg.value)
  /\ calls' = Append(calls, [item |-> ci, msg |-> mi,
                             sentences |-> Sentences(CurrentMsg.value)])
  /\ pc' = "Calling"
  /\ UNCHANGED <<data, input, output_file_path, pbar, all_translated, ci,
                 conversation, mi, translated_conversation, result, file>>

\* batch_translate returns: translated_value = '\n'.join(translations), append,
\* progress_bar.update(1).
BackendReturn ==
  /\ pc = "Calling"
  /\ heap' = [heap EXCEPT ![translated_msg] =
                SetField(@, "translated_value", Join(batch_translate(sentences)))]
  /\ translated_conversation' = Append(translated_conversation, translated_msg)
  /\ pbar' = Tick(pbar)
  /\ mi' = mi + 1
  /\ pc' = "Msgs"
  /\ UNCHANGED <<data, input, output_file_path, all_translated, ci, conversation,
                 translated_msg, sentences, calls, result, file>>

\* batch_translate raises: nothing catches it, process_file is left by the
\* exception and the process ends.
BackendRaise ==
  /\ pc = "Calling"
  /\ pc' = "Failed"
  /\ UNCHANGED <<data, heap, input, output_file_path, pbar, all_translated, ci,
                 conversation, mi, translated_conversation, translated_msg,
                 sentences, calls, result, file>>

\* ------------------------------------------------------ process_file, go on
\* Mutant of AppendItem: new_item is built from the translation alone, not
\* from a copy of conv_item.
AppendItemBare ==
  /\ pc = "Msgs"
  /\ data.kind = "list"
  /\ mi > Len(conversation)
  /\ heap' = Append(heap, [conversations |-> translated_conversation])
  /\ all_translated' = Append(all_translated, Len(heap) + 1)
  /\ ci' = ci + 1
  /\ pc' = "Items"
  /\ UNCHANGED <<data, input, output_file_path, pbar, conversation, mi,
                 translated_conversation, translated_msg, sentences, calls,
                 result, file>>

\* Mutant of AppendItem: the file is rewritten after every conversation.
AppendItemSaving ==
  /\ pc = "Msgs"
  /\ data.kind = "list"
  /\ mi > Len(conversation)
  /\ heap' = Append(heap, SetField(heap[CurrentItem], "conversations",
                                   translated_conversation))
  /\ all_translated' = Append(all_translated, Len(heap) + 1)
  /\ file' = Saved(heap', all_translated')
  /\ ci' = ci + 1
  /\ pc' = "Items"
  /\ UNCHANGED <<data, input, output_file_path, pbar, conversation, mi,
                 translated_conversation, translated_msg, sentences, calls,
                 result>>

\* translate_conversation returned inside the list loop: new_item = copy with
\* 'conversations' replaced, appended to all_translated.
AppendItem ==
  /\ pc = "Msgs"
  /\ data.kind = "list"
  /\ mi > Len(conversation)
  /\ heap' = Append(heap, SetField(heap[CurrentItem], "conversations",
                                   translated_conversation))
  /\ all_translated' = Append(all_translated, Len(heap) + 1)
  /\ ci' = ci + 1
  /\ pc' = "Items"
  /\ UNCHANGED <<data, input, output_file_path, pbar, conversation, mi,
                 translated_conversation, translated_msg, sentences, calls,
                 result, file>>

\* The list loop is over: the bar is closed, the file written when a path was
\* given, all_translated returned.
FinishList ==
  /\ pc = "Items"
  /\ ci > Len(data.items)
  /\ file' = Saved(heap, all_translated)
  /\ result' = [kind |-> "list", items |-> all_translated]
  /\ pc' = "Done"
  /\ UNCHANGED <<data, heap, input, output_file_path, pbar, all_translated, ci,
                 conversation, mi, translated_conversation, translated_msg,
                 sentences, calls>>

\* translate_conversation returned for the single conversation: new_data = copy
\* with 'conversations' replaced, the file written when a path was given,
\* new_data returned.
FinishSingle ==
  /\ pc = "Msgs"
  /\ data.kind = "dict"
  /\ mi > Len(conversation)
  /\ heap' = Append(heap, SetField(heap[data.items[1]], "conversations",
                                   translated_conversation))
  /\ file' = Saved(heap', <<Len(heap) + 1>>)
  /\ result' = [kind |-> "dict", items |-> <<Len(heap) + 1>>]
  /\ pc' = "Done"
  /\ UNCHANGED <<data, input, output_file_path, pbar, all_translated, ci,
                 conversation, mi, translated_conversation, translated_msg,
                 sentences, calls>>

\* ------------------------------------------------------ after the run
\* The records reachable from the returned value.
RECURSIVE Flatten(_)
Flatten(ss) == IF Len(ss) = 0 THEN <<>> ELSE Head(ss) \o Flatten(Tail(ss))
Range(s) == {s[i] : i \in 1..Len(s)}
MsgRefs(h, r) == IF HasField(h[r], "conversations") THEN Range(h[r].conversations) ELSE {}
OutputRecords == Range(result.items) \cup UNION {MsgRefs(heap, r) : r \in Range(result.items)}

\* The caller sets a field on one record of the returned structure.
MutateOutput ==
  /\ pc = "Done"
  /\ \E r \in OutputRecords :
       heap' = [heap EXCEPT ![r] = SetField(@, "touched", <<"y">>)]
  /\ pc' = "Mutated"
  /\ UNCHANGED <<data, input, output_file_path, pbar, all_translated, ci,
                 conversation, mi, translated_conversation, translated_msg,
                 sentences, calls, result, file>>

Next ==
  \/ ProcessList
  \/ ProcessSingle
  \/ ProcessUnsupported
  \/ EnterConversation
  \/ SkipItem
  \/ MsgNoCall
  \/ MsgCall
  \/ BackendReturn
  \/ BackendRaise
  \/ AppendItem
  \/ FinishList
  \/ FinishSingle
  \/ MutateOutput

Spec == Init /\ [][Next]_vars

\* ================================================================ properties
\* Reference notions the properties are stated in, defined from positions in
\* the text rather than by the program's split / strip / filter.
IsBlankChar(c) == c \in Whitespace

\* Where the lines of t start, and where the line starting at i ends.
LineStarts(t) == {i \in 1..(Len(t) + 1) : i = 1 \/ t[i - 1] = NL}
LineEnd(t, i) ==
  CHOOSE j \in i..(Len(t) + 1) :
    /\ (j = Len(t) + 1 \/ t[j] = NL)
    /\ \A m \in i..(j - 1) : t[m] # NL
LineAt(t, i) == SubSeq(t, i, LineEnd(t, i) - 1)

RECURSIVE Trim(_)
Trim(l) ==
  IF Len(l) = 0 THEN l
  ELSE IF IsBlankChar(l[1]) THEN Trim(Tail(l))
  ELSE IF IsBlankChar(l[Len(l)]) THEN Trim(SubSeq(l, 1, Len(l) - 1))
  ELSE l

RECURSIVE LinesFrom(_, _)
LinesFrom(t, i) ==
  IF i > Len(t) + 1 THEN <<>>
  ELSE <<LineAt(t, i)>> \o LinesFrom(t, LineEnd(t, i) + 1)

\* All lines of t, and its non-blank lines trimmed, in order.
AllLines(t) == LinesFrom(t, 1)
IsNonBlankLine(l) == \E i \in 1..Len(l) : ~IsBlankChar(l[i])
NonBlankLines(t) ==
  LET ls == SelectSeq(AllLines(t), IsNonBlankLine)
  IN [i \in 1..Len(ls) |-> Trim(ls[i])]

\* The non-blank lines of a message: none when value is absent.
MsgLines(msg) == IF HasField(msg, "value") THEN NonBlankLines(msg.value) ELSE <<>>

\* The loaded corpus: item i of data, its messages, and every message
\* position <<i, j>> in corpus order.
InItem(i) == input[data.items[i]]
InHasConv(i) == HasField(InItem(i), "conversations")
InMsgCount(i) == IF InHasConv(i) THEN Len(InItem(i).conversations) ELSE 0
InMsg(i, j) == input[InItem(i).conversations[j]]
Positions ==
  Flatten([i \in 1..Len(data.items) |-> [j \in 1..InMsgCount(i) |-> <<i, j>>]])
PositionSet ==
  UNION {{<<i, j>> : j \in 1..InMsgCount(i)} : i \in 1..Len(data.items)}
\* The place of message <<i, j>> in corpus order, counted from 1.
PosIndex(i, j) ==
  Cardinality({p \in PositionSet : p[1] < i \/ (p[1] = i /\ p[2] <= j)})

\* Message <<i, j>> has been appended to its translated conversation, or is
\* at least the one being worked on.
Completed(i, j) == i < ci \/ (i = ci /\ pc # "Items" /\ j < mi)
Started(i, j) == Completed(i, j) \/ (i = ci /\ j = mi /\ pc \in {"Calling", "Failed"})
IsCompleted(p) == Completed(p[1], p[2])
CompletedCount == Cardinality({p \in PositionSet : IsCompleted(p)})

\* The output items built so far, and the output message of a completed position.
OutItems == IF data.kind = "list" THEN all_translated ELSE result.items
OutMsgRef(i, j) ==
  IF i <= Len(OutItems)
  THEN heap[OutItems[i]].conversations[j]
  ELSE translated_conversation[j]
OutMsg(i, j) == heap[OutMsgRef(i, j)]
InputRefs == 1..Len(input)
Running == pc \notin {"Start", "Unsupported", "Mutated"}

\* ---------------------------------------------------------------- C1
\* C1: every message translate_conversation has processed carries a
\* translated_value field, and a message whose value is empty, absent or made
\* of blank lines only has translated_value equal to the empty string.
C1_EveryMessageHasTranslatedValue ==
  Running =>
    \A p \in PositionSet :
      LET i == p[1]
          j == p[2]
      IN Completed(i, j) =>
           /\ HasField(OutMsg(i, j), "translated_value")
           /\ (MsgLines(InMsg(i, j)) = <<>> => OutMsg(i, j).translated_value = <<>>)

\* ---------------------------------------------------------------- C2
\* The calls the claim expects: one per started message that has a non-blank
\* line, in corpus order, each with all the non-blank lines of its message.
IsStartedWithLines(p) == Started(p[1], p[2]) /\ MsgLines(InMsg(p[1], p[2])) # <<>>
ExpectedCalls ==
  LET ps == SelectSeq(Positions, IsStartedWithLines)
  IN [k \in 1..Len(ps) |->
        [item |-> ps[k][1], msg |-> ps[k][2],
         sentences |-> MsgLines(InMsg(ps[k][1], ps[k][2]))]]

\* C2: batch_translate is called exactly once for each message with a
\* non-blank line, with all of its non-blank lines in order, never for a
\* message without one, and never with an empty list.
C2_OneCallPerNonBlankMessage ==
  /\ calls = ExpectedCalls
  /\ \A k \in 1..Len(calls) : calls[k].sentences # <<>>

\* A run that ended with two calls made and two messages that needed none.
C2_Witness ==
  /\ pc = "Done"
  /\ Len(calls) = 2
  /\ pbar.n >= Len(calls) + 1
  /\ \E p \in PositionSet :
       /\ HasField(InMsg(p[1], p[2]), "value")
       /\ InMsg(p[1], p[2]).value # <<>>
       /\ MsgLines(InMsg(p[1], p[2])) = <<>>

\* ---------------------------------------------------------------- C3
\* C3: for a message with k >= 1 non-blank lines, translated_value has exactly
\* k lines and its i-th line is the backend's translation of the i-th
\* non-blank line of value.
C3_LinesTranslatedInOrder ==
  Running =>
    \A p \in PositionSet :
      LET i == p[1]
          j == p[2]
          ls == MsgLines(InMsg(i, j))
      IN (Completed(i, j) /\ Len(ls) >= 1) =>
           /\ HasField(OutMsg(i, j), "translated_value")
           /\ AllLines(OutMsg(i, j).translated_value)
                = [n \in 1..Len(ls) |-> TranslateLine(ls[n])]

\* "a\nb" has been translated to "x\ny".
C3_Witness ==
  /\ pc = "Done"
  /\ \E p \in PositionSet :
       /\ InMsg(p[1], p[2]).from = "human"
       /\ InMsg(p[1], p[2]).value = <<"a", NL, "b">>
       /\ OutMsg(p[1], p[2]).translated_value = <<"x", NL, "y">>

\* ---------------------------------------------------------------- C4
\* C4: when a run completes, the progress counter equals the total computed
\* before any translation, which is the number of messages of the corpus
\* (an item without 'conversations' counting zero).
C4_FinalCountIsTotal ==
  pc = "Done" =>
    /\ pbar.created
    /\ pbar.n = pbar.total
    /\ pbar.total = Cardinality(PositionSet)

\* A completed list run with an item lacking 'conversations' and more
\* messages than backend calls.
C4_Witness ==
  /\ pc = "Done"
  /\ data.kind = "list"
  /\ \E i \in 1..Len(data.items) : ~InHasConv(i)
  /\ pbar.n >= 2
  /\ Len(calls) < pbar.n

\* ---------------------------------------------------------------- C5
\* C5: a list of n items gives n output items, item i for input item i; an
\* item without 'conversations' is the input item itself, unchanged, at its
\* index, with no backend call and no tick on its account; a single
\* conversation gives exactly one record.
C5_ItemsKeepTheirPlace ==
  /\ (pc = "Done" /\ data.kind = "list") =>
       /\ result.kind = "list"
       /\ Len(result.items) = Len(data.items)
  /\ (pc = "Done" /\ data.kind = "dict") =>
       /\ result.kind = "dict"
       /\ Len(result.items) = 1
  /\ Running =>
       /\ Len(OutItems) <= Len(data.items)
       /\ \A i \in 1..Len(OutItems) :
            /\ heap[OutItems[i]].id = InItem(i).id
            /\ HasField(heap[OutItems[i]], "conversations") = InHasConv(i)
            /\ ~InHasConv(i) =>
                 /\ OutItems[i] = data.items[i]
                 /\ heap[OutItems[i]] = InItem(i)
       /\ \A k \in 1..Len(calls) : InHasConv(calls[k].item)
       /\ pbar.n = CompletedCount

\* A completed list run whose first item lacks 'conversations' and whose
\* second item was translated with a backend call.
C5_Witness ==
  /\ pc = "Done"
  /\ data.kind = "list"
  /\ Len(data.items) = 2
  /\ ~InHasConv(1)
  /\ InHasConv(2)
  /\ result.items[1] = data.items[1]
  /\ Len(calls) >= 1

\* ---------------------------------------------------------------- C6
\* C6: no record of the returned structure is an input record, and the input
\* records are as they were loaded, also after the caller has set a field on
\* an output record.
C6_OutputIsFreshCopy ==
  pc \in {"Done", "Mutated"} =>
    /\ OutputRecords \cap InputRefs = {}
    /\ \A r \in InputRefs : heap[r] = input[r]

\* ---------------------------------------------------------------- C7
SameExcept(out, in, field) ==
  /\ (DOMAIN out) \ {field} = (DOMAIN in) \ {field}
  /\ \A f \in (DOMAIN in) \ {field} : out[f] = in[f]

\* C7: the output message list is as long as the input one, output message j
\* equals input message j on every field but translated_value, and an output
\* conversation record equals its input record on every field but
\* conversations.
C7_OtherFieldsUnchanged ==
  Running =>
    /\ \A i \in 1..Len(OutItems) :
         /\ SameExcept(heap[OutItems[i]], InItem(i), "conversations")
         /\ HasField(heap[OutItems[i]], "conversations") = InHasConv(i)
         /\ InHasConv(i) => Len(heap[OutItems[i]].conversations) = InMsgCount(i)
    /\ \A p \in PositionSet :
         Completed(p[1], p[2]) =>
           SameExcept(OutMsg(p[1], p[2]), InMsg(p[1], p[2]), "translated_value")

\* A completed list run with a translated two-message conversation.
C7_Witness ==
  /\ pc = "Done"
  /\ data.kind = "list"
  /\ \E i \in 1..Len(data.items) :
       /\ InMsgCount(i) = 2
       /\ OutItems[i] # data.items[i]
       /\ HasField(OutMsg(i, 1), "translated_value")
       /\ OutMsg(i, 2).from = InMsg(i, 2).from

\* ---------------------------------------------------------------- C8
WrittenOnlyWhenComplete ==
  /\ pc = "Failed" => ~file.written
  /\ output_file_path = "" => ~file.written
  /\ file.written =>
       /\ pc \in {"Done", "Mutated"}
       /\ pbar.n = Cardinality(PositionSet)
       /\ Len(file.content) = Len(data.items)

\* C8: the output file is written only after every message of every
\* conversation has been processed; a backend failure takes the run to
\* Failed, where it stays, with no file written; without an output path
\* nothing is ever written.
C8_AllOrNothingPersistence ==
  /\ []WrittenOnlyWhenComplete
  /\ [][pc = "Failed" => pc' = "Failed"]_vars

\* The backend failed in the second conversation, with an output path given
\* and the first conversation already translated.
C8_Witness ==
  /\ pc = "Failed"
  /\ output_file_path # ""
  /\ ci = 2
  /\ Len(all_translated) = 1
  /\ all_translated[1] # data.items[1]
  /\ Len(calls) = 2

\* ---------------------------------------------------------------- C9
IsUnsupported ==
  /\ data.kind # "list"
  /\ ~(data.kind = "dict" /\ HasField(input[data.items[1]], "conversations"))

\* C9: a loaded value that is neither a list nor a mapping with
\* 'conversations' goes straight to the unsupported outcome: no result, no
\* backend call, no progress bar, no file even when an output path is given.
C9_UnsupportedDoesNothing ==
  IsUnsupported =>
    /\ pc \in {"Start", "Unsupported"}
    /\ result.kind = "none"
    /\ calls = <<>>
    /\ ~pbar.created
    /\ ~file.written
    /\ heap = input

\* The unsupported outcome, for a mapping without 'conversations' and with an
\* output path given.
C9_Witness ==
  /\ pc = "Unsupported"
  /\ data.kind = "dict"
  /\ output_file_path # ""

\* ---------------------------------------------------------------- C10
ProgressMatchesCompleted ==
  /\ pbar.n = CompletedCount
  /\ pbar.created => pbar.n <= pbar.total
  /\ ~pbar.created => pbar.n = 0
  /\ \A p \in PositionSet : IsCompleted(p) <=> PosIndex(p[1], p[2]) <= pbar.n
  /\ \A k \in 1..Len(calls) :
       \/ Completed(calls[k].item, calls[k].msg)
       \/ (k = Len(calls) /\ pc \in {"Calling", "Failed"})
  /\ \A k \in 1..(Len(calls) - 1) :
       PosIndex(calls[k].item, calls[k].msg) < PosIndex(calls[k + 1].item, calls[k + 1].msg)
  /\ pc = "Calling" =>
       /\ calls[Len(calls)].item = ci
       /\ calls[Len(calls)].msg = mi
       /\ pbar.n = PosIndex(ci, mi) - 1

\* C10: the progress counter equals the number of completed messages: it
\* starts at 0, moves only by +1, is ticked for a message only after its
\* backend call has returned, never exceeds the total, and messages are
\* processed in corpus order with at most one backend call outstanding.
C10_ProgressFollowsMessages ==
  /\ []ProgressMatchesCompleted
  /\ [][pbar.n' = pbar.n \/ pbar.n' = pbar.n + 1]_vars

\* A backend call outstanding for the second conversation, after the first
\* conversation's message was translated and ticked.
C10_Witness ==
  /\ pc = "Calling"
  /\ ci = 2
  /\ pbar.n >= 1
  /\ Len(calls) = 2
  /\ pbar.n < pbar.total

====
